---- MODULE Spec2Model ----
(***************************************************************************)
(* Model of the two Flask services of ecommerce-microservices:             *)
(*   product-inventory/inventory_api.py  (store, gauges, instrumentation)  *)
(*   contact-support-team/server.py      (instrumentation)                 *)
(* One thread per request; a step of a thread is one access to shared      *)
(* state (the inventory list, the lock, the files, a metric series).       *)
(***************************************************************************)
EXTENDS Integers, Sequences, FiniteSets, TLC

\* ------------------------------------------------------------------ bounds
NumThreads == 2          \* request threads of the inventory service
MaxQty == 1              \* largest quantity in a starting inventory
NumContact == 2          \* request threads of the contact service

\* --------------------------------------------------------------- constants
DATA_FILE == "inventory.json"
SERVICE == "product-inventory"
LOW_STOCK_THRESHOLD == 10

AllKeys == {"id", "quantity"}

Item(i, q) == [keys |-> AllKeys, id |-> i, quantity |-> q]

DEFAULT_INVENTORY ==
    << Item(1, 100), Item(2, 50), Item(3, 75), Item(4, 120), Item(5, 30),
       Item(6, 60), Item(7, 40), Item(8, 90), Item(9, 80), Item(10, 70),
       Item(11, 20), Item(12, 55) >>

\* -------------------------------------------------- JSON text of an integer
\* json.dump writes an int as an optional minus sign and decimal digits;
\* json.load reads it back.  NoText is the text of a key that is not there.
DigitsLast(n) == <<n % 10>>

RECURSIVE Digits(_)
Digits(n) == IF n < 10 THEN <<n>> ELSE Digits(n \div 10) \o <<n % 10>>

DumpInt(n) == [neg |-> n < 0, digits |-> Digits(IF n < 0 THEN 0 - n ELSE n)]

RECURSIVE DigitsValue(_)
DigitsValue(s) ==
    IF Len(s) = 0 THEN 0
    ELSE 10 * DigitsValue(SubSeq(s, 1, Len(s) - 1)) + s[Len(s)]

LoadInt(t) == IF t.neg THEN 0 - DigitsValue(t.digits) ELSE DigitsValue(t.digits)

NoText == [neg |-> FALSE, digits |-> <<>>]

\* One element of the JSON array: the keys it carries and their values.
DumpItem(p) ==
    [keys |-> p.keys,
     id |-> IF "id" \in p.keys THEN DumpInt(p.id) ELSE NoText,
     quantity |-> IF "quantity" \in p.keys THEN DumpInt(p.quantity) ELSE NoText]

LoadItem(e) ==
    [keys |-> e.keys,
     id |-> IF "id" \in e.keys THEN LoadInt(e.id) ELSE 0,
     quantity |-> IF "quantity" \in e.keys THEN LoadInt(e.quantity) ELSE 0]

DumpList(data) == [i \in 1..Len(data) |-> DumpItem(data[i])]
LoadList(elems) == [i \in 1..Len(elems) |-> LoadItem(elems[i])]

\* ------------------------------------------------------------------- files
\* A file is absent, or holds text: garbage, a JSON object, or a JSON array
\* whose closing bracket has (closed) or has not yet (open) been written.
Absent == [kind |-> "absent", closed |-> FALSE, elems |-> <<>>]
Garbage == [kind |-> "garbage", closed |-> TRUE, elems |-> <<>>]
JsonObject == [kind |-> "object", closed |-> TRUE, elems |-> <<>>]
OpenArray(elems) == [kind |-> "array", closed |-> FALSE, elems |-> elems]
JsonArray(elems) == [kind |-> "array", closed |-> TRUE, elems |-> elems]

TmpPathSame(path) == path

\* tmp = f"{path}.tmp"
TmpPath(path) == IF path = DATA_FILE THEN "inventory.json.tmp" ELSE path

Paths == {DATA_FILE, TmpPath(DATA_FILE)}

\* json.load(f): the parsed value, or a failure (file missing, bad JSON).
Parses(c) == c.kind \in {"object", "array"} /\ c.closed

\* isinstance(data, list)
IsList(c) == Parses(c) /\ c.kind = "array"

ReplaceDrop(files, src, dst) == [files EXCEPT ![src] = Absent]

\* os.replace(src, dst)
Replace(files, src, dst) ==
    IF src = dst THEN files
    ELSE [files EXCEPT ![dst] = files[src], ![src] = Absent]

\* _atomic_write run to completion by one thread.
AtomicWrite(files, path, data) ==
    LET tmp == TmpPath(path)
        written == [files EXCEPT ![tmp] = JsonArray(DumpList(data))]
    IN  Replace(written, tmp, path)

\* ------------------------------------------------------- inventory helpers
\* int(p.get("quantity", 0))
Qty(p) == IF "quantity" \in p.keys THEN p.quantity ELSE 0

RECURSIVE SumQty(_)
SumQty(inv) == IF Len(inv) = 0 THEN 0 ELSE Qty(Head(inv)) + SumQty(Tail(inv))

\* The four values _update_aggregate_gauges computes from the inventory.
Aggregates(inv) ==
    [total_items |-> Len(inv),
     total_qty |-> SumQty(inv),
     out_of_stock |-> Cardinality({i \in 1..Len(inv) : Qty(inv[i]) = 0}),
     low_stock |-> Cardinality({i \in 1..Len(inv) : Qty(inv[i]) <= LOW_STOCK_THRESHOLD})]

NoAggregates == [total_items |-> 0, total_qty |-> 0, out_of_stock |-> 0, low_stock |-> 0]

LookupOrFirst(inv, product_id) ==
    LET hits == {i \in 1..Len(inv) : inv[i].id = product_id}
    IN  IF hits = {} THEN 1 ELSE CHOOSE i \in hits : \A j \in hits : i <= j

\* next((p for p in inventory if p["id"] == product_id), None):
\* the index of the first item carrying the id, 0 for None.
Lookup(inv, product_id) ==
    LET hits == {i \in 1..Len(inv) : inv[i].id = product_id}
    IN  IF hits = {} THEN 0 ELSE CHOOSE i \in hits : \A j \in hits : i <= j

\* A labelled series is created, at zero, by its first use.
Value(series, labels) == IF labels \in DOMAIN series THEN series[labels] ELSE 0
Put(series, labels, v) ==
    [l \in DOMAIN series \cup {labels} |-> IF l = labels THEN v ELSE series[l]]
Inc(series, labels) == Put(series, labels, Value(series, labels) + 1)

RECURSIVE SetQtyGauges(_, _)
SetQtyGauges(series, inv) ==
    IF Len(inv) = 0 THEN series
    ELSE SetQtyGauges(Put(series, Head(inv).id, Head(inv).quantity), Tail(inv))

\* ---------------------------------------------------------------- requests
OrderIds == {1, 2, 99}

Req(method, path) == [method |-> method, path |-> path]
NoReq == Req("", <<>>)

Orders == {Req("POST", <<"/api/order", i>>) : i \in OrderIds}

Requests ==
    Orders
        \cup {Req("GET", <<"/api/inventory", i>>) : i \in {1, 99}}
        \cup {Req("GET", <<"/api/inventory">>), Req("GET", <<"/healthz">>),
              Req("GET", <<"/metrics">>), Req("GET", <<"/nope">>)}

\* request.url_rule.rule of the matched route, "" when no route matches.
UrlRule(r) ==
    IF r.method = "GET" /\ r.path = <<"/metrics">> THEN "/metrics"
    ELSE IF r.method = "GET" /\ r.path = <<"/healthz">> THEN "/healthz"
    ELSE IF r.method = "GET" /\ r.path = <<"/api/inventory">> THEN "/api/inventory"
    ELSE IF r.method = "GET" /\ Len(r.path) = 2 /\ r.path[1] = "/api/inventory"
        THEN "/api/inventory/<int:product_id>"
    ELSE IF r.method = "POST" /\ Len(r.path) = 2 /\ r.path[1] = "/api/order"
        THEN "/api/order/<int:product_id>"
    ELSE ""

\* The rules registered by @app.get and @app.route.
RegisteredRoutes ==
    {"/metrics", "/healthz", "/api/inventory",
     "/api/inventory/<int:product_id>", "/api/order/<int:product_id>"}

IsMetricsPath(r) == r.path = <<"/metrics">>

\* route = request.url_rule.rule if request.url_rule else request.path
RouteLabel(r) == IF UrlRule(r) # "" THEN <<UrlRule(r)>> ELSE r.path

\* ------------------------------------------------------------------- state
VARIABLES
    proc,        \* "boot", "loaded", "serving", "bootfail" (the import raised)
    fs,          \* the files: path -> content
    inventory,   \* the module-level list `inventory`
    lock,        \* _lock: 0 when free, else the thread holding it
    m,           \* the metric series of product-inventory
    rq,          \* per thread: the request, its context and the locals
    menu,        \* the requests the clients of this run send
    hist         \* history: starting inventory, whether a persist failed

\* state of the contact-support service
VARIABLES
    cm,          \* the metric series of contact-support-team
    crq          \* per thread: the request and its context

vars == <<proc, fs, inventory, lock, m, rq, menu, hist, cm, crq>>
invVars == <<proc, fs, inventory, lock, m, rq, menu, hist>>

Threads == DOMAIN rq
contactVars == <<cm, crq>>

\* What a request that starts with no other request running finds.
NoStart == [inv |-> <<>>, file |-> Absent]
Start(inv, file) == [inv |-> inv, file |-> file]

IdleThread ==
    [pc |-> "idle", req |-> NoReq, inflight_inc |-> FALSE, exc |-> FALSE,
     status |-> 0, body |-> <<>>, product |-> 0, q |-> 0, n |-> 0,
     agg |-> NoAggregates, incs |-> 0, decs |-> 0, stored |-> FALSE,
     wrote |-> FALSE, start |-> NoStart, alone |-> TRUE]

NoSeries == [l \in {} |-> 0]

EmptyContactRegistry ==
    [in_flight |-> NoSeries, requests |-> NoSeries, errors |-> NoSeries,
     latency |-> NoSeries, request_size |-> NoSeries, response_size |-> NoSeries,
     fast |-> NoSeries, messages |-> 0, submissions |-> NoSeries, fields |-> 0,
     processing |-> 0, rss |-> FALSE]

EmptyRegistry ==
    [in_flight |-> 0, quantity |-> NoSeries, agg |-> NoAggregates,
     orders |-> NoSeries, decrements |-> NoSeries, requests |-> NoSeries,
     durations |-> NoSeries, sizes |-> NoSeries, exceptions |-> NoSeries]

\* refresh_gauges()
RefreshGauges(reg, inv) ==
    [reg EXCEPT !.quantity = SetQtyGauges(@, inv), !.agg = Aggregates(inv)]

\* The inventories a run starts from: item 1 is out of stock or nearly so,
\* item 2 sits just above the low-stock threshold.
StartInventories ==
    {<<Item(1, a), Item(2, LOW_STOCK_THRESHOLD + 1)>> : a \in 0..MaxQty}

Running(t) == rq[t].pc \notin {"idle", "done"}

\* ------------------------------------------------- request instrumentation
Ctx(t, r) == rq' = [rq EXCEPT ![t] = r]

\* Requests are numbered in the order they arrive: request t runs on thread t.
NextToArrive(ctxs, t) == \A u \in DOMAIN ctxs : u < t => ctxs[u].pc # "idle"

\* @app.before_request _before
Before(t) ==
    /\ proc = "serving"
    /\ rq[t].pc = "idle"
    /\ NextToArrive(rq, t)
    /\ \E r \in menu :
        LET counted == ~IsMetricsPath(r)
            quiet == \A u \in Threads : ~Running(u)
        IN  /\ m' = IF counted THEN [m EXCEPT !.in_flight = @ + 1] ELSE m
            /\ rq' = [u \in Threads |->
                        IF u = t
                        THEN [rq[t] EXCEPT !.pc = "handler", !.req = r,
                                           !.inflight_inc = counted,
                                           !.incs = IF counted THEN @ + 1 ELSE @,
                                           !.start = IF quiet
                                                     THEN Start(inventory, fs[DATA_FILE])
                                                     ELSE NoStart,
                                           !.alone = quiet]
                        ELSE IF Running(u)
                        THEN [rq[u] EXCEPT !.alone = FALSE, !.start = NoStart]
                        ELSE rq[u]]
    /\ UNCHANGED <<proc, fs, inventory, lock, menu, hist, contactVars>>

CountedAlways(ctx) == TRUE

\* getattr(request, "_inflight_inc", False), as read by _after and _teardown
Counted(ctx) == ctx.inflight_inc

\* The labels of the HTTP series of a response.
HttpLabels(ctx) == <<ctx.req.method, RouteLabel(ctx.req), ctx.status>>

\* @app.after_request _after
After(t) ==
    /\ proc = "serving"
    /\ rq[t].pc = "after"
    /\ LET ctx == rq[t]
           dec == ~IsMetricsPath(ctx.req) /\ Counted(ctx)
       IN  /\ m' = IF IsMetricsPath(ctx.req) THEN m
                   ELSE [m EXCEPT !.requests = Inc(@, HttpLabels(ctx)),
                                  !.durations = Inc(@, HttpLabels(ctx)),
                                  !.sizes = Inc(@, HttpLabels(ctx)),
                                  !.in_flight = IF dec THEN @ - 1 ELSE @]
           /\ Ctx(t, [ctx EXCEPT !.pc = "teardown",
                                 !.inflight_inc = IF dec THEN FALSE ELSE @,
                                 !.decs = IF dec THEN @ + 1 ELSE @])
    /\ UNCHANGED <<proc, fs, inventory, lock, menu, hist, contactVars>>

FailedOrErrorStatus(ctx) == ctx.exc \/ ctx.status >= 400

\* if exc is not None:
Failed(ctx) == ctx.exc

\* @app.teardown_request _teardown
Teardown(t) ==
    /\ proc = "serving"
    /\ rq[t].pc = "teardown"
    /\ LET ctx == rq[t]
           on == ~IsMetricsPath(ctx.req)
           dec == on /\ Counted(ctx)
       IN  /\ m' = [m EXCEPT !.exceptions = IF on /\ Failed(ctx)
                                            THEN Inc(@, RouteLabel(ctx.req)) ELSE @,
                             !.in_flight = IF dec THEN @ - 1 ELSE @]
           /\ Ctx(t, [ctx EXCEPT !.pc = "done",
                                 !.inflight_inc = IF dec THEN FALSE ELSE @,
                                 !.decs = IF dec THEN @ + 1 ELSE @,
                                 !.body = <<>>, !.product = 0, !.q = 0, !.n = 0,
                                 !.agg = NoAggregates, !.stored = FALSE,
                                 !.wrote = FALSE, !.start = NoStart,
                                 !.alone = TRUE])
    /\ UNCHANGED <<proc, fs, inventory, lock, menu, hist, contactVars>>

\* The handler returned a response: Flask runs the after_request functions.
Respond(ctx, status, body) ==
    [ctx EXCEPT !.pc = "after", !.status = status, !.body = body]

\* The handler raised.  Flask either turns the exception into a 500 response
\* and runs the after_request functions on it, or (PROPAGATE_EXCEPTIONS,
\* testing, debug) re-raises it and goes straight to the teardown functions.
Raise(ctx, propagate) ==
    [ctx EXCEPT !.pc = IF propagate THEN "teardown" ELSE "after",
                !.exc = TRUE, !.status = 500]

\* --------------------------------------------------------------- endpoints
Handling(t, rule) ==
    /\ proc = "serving"
    /\ rq[t].pc = "handler"
    /\ UrlRule(rq[t].req) = rule

\* metrics()
Metrics(t) ==
    /\ Handling(t, "/metrics")
    /\ Ctx(t, Respond(rq[t], 200, <<>>))
    /\ UNCHANGED <<proc, fs, inventory, lock, m, menu, hist, contactVars>>

\* healthz()
Healthz(t) ==
    /\ Handling(t, "/healthz")
    /\ Ctx(t, Respond(rq[t], 200, <<>>))
    /\ UNCHANGED <<proc, fs, inventory, lock, m, menu, hist, contactVars>>

\* get_inventory()
GetInventory(t) ==
    /\ Handling(t, "/api/inventory")
    /\ Ctx(t, Respond(rq[t], 200, inventory))
    /\ UNCHANGED <<proc, fs, inventory, lock, m, menu, hist, contactVars>>

\* get_product_inventory(product_id)
GetProductInventory(t) ==
    /\ Handling(t, "/api/inventory/<int:product_id>")
    /\ LET product_id == rq[t].req.path[2]
           i == Lookup(inventory, product_id)
       IN  IF i # 0
           THEN /\ Ctx(t, Respond(rq[t], 200, <<inventory[i]>>))
                /\ m' = m
           ELSE /\ Ctx(t, Respond(rq[t], 404, <<>>))
                /\ m' = [m EXCEPT !.orders = Inc(@, <<product_id, "not_found">>)]
    /\ UNCHANGED <<proc, fs, inventory, lock, menu, hist, contactVars>>

\* No route matches the path: Flask answers 404 without calling a handler.
NoRoute(t) ==
    /\ Handling(t, "")
    /\ Ctx(t, Respond(rq[t], 404, <<>>))
    /\ UNCHANGED <<proc, fs, inventory, lock, m, menu, hist, contactVars>>

\* ----------------------------------------------------------- order_product
InStockLoose(q) == q >= 0

\* int(product["quantity"]) > 0
InStock(q) == q > 0

\* product = next(...); if product and int(product["quantity"]) > 0:
OrderCheck(t) ==
    /\ Handling(t, "/api/order/<int:product_id>")
    /\ LET i == Lookup(inventory, rq[t].req.path[2])
       IN  Ctx(t, [rq[t] EXCEPT !.product = i,
                                !.pc = IF i # 0 /\ InStock(inventory[i].quantity)
                                       THEN "dec_read" ELSE "check2"])
    /\ UNCHANGED <<proc, fs, inventory, lock, m, menu, hist, contactVars>>

\* if product and int(product["quantity"]) <= 0: ... 400, else ... 404
OrderReject(t) ==
    /\ proc = "serving"
    /\ rq[t].pc = "check2"
    /\ LET product_id == rq[t].req.path[2]
           i == rq[t].product
       IN  IF i # 0 /\ inventory[i].quantity <= 0
           THEN /\ m' = [m EXCEPT !.orders = Inc(@, <<product_id, "out_of_stock">>)]
                /\ Ctx(t, Respond(rq[t], 400, <<>>))
           ELSE /\ m' = [m EXCEPT !.orders = Inc(@, <<product_id, "not_found">>)]
                /\ Ctx(t, Respond(rq[t], 404, <<>>))
    /\ UNCHANGED <<proc, fs, inventory, lock, menu, hist, contactVars>>

\* product["quantity"] -= 1 : the load of the old value ...
OrderDecRead(t) ==
    /\ proc = "serving"
    /\ rq[t].pc = "dec_read"
    /\ Ctx(t, [rq[t] EXCEPT !.q = inventory[rq[t].product].quantity, !.pc = "dec_write"])
    /\ UNCHANGED <<proc, fs, inventory, lock, m, menu, hist, contactVars>>

\* ... and the store of the old value minus one.
OrderDecWrite(t) ==
    /\ proc = "serving"
    /\ rq[t].pc = "dec_write"
    /\ inventory' = [inventory EXCEPT ![rq[t].product].quantity = rq[t].q - 1]
    /\ Ctx(t, [rq[t] EXCEPT !.q = 0, !.stored = TRUE, !.pc = "save"])
    /\ UNCHANGED <<proc, fs, lock, m, menu, hist, contactVars>>

\* save_inventory: with _lock: _atomic_write: open(tmp, "w")
SaveOpen(t) ==
    /\ proc = "serving"
    /\ rq[t].pc = "save"
    /\ lock = 0
    /\ lock' = t
    /\ fs' = [fs EXCEPT ![TmpPath(DATA_FILE)] = OpenArray(<<>>)]
    /\ Ctx(t, [rq[t] EXCEPT !.n = 0, !.wrote = TRUE, !.pc = "dump"])
    /\ UNCHANGED <<proc, inventory, m, menu, hist, contactVars>>

\* json.dump(data, f) writes the list chunk by chunk, reading each item when
\* its turn comes; the closing bracket follows the last item.
SaveDump(t) ==
    /\ proc = "serving"
    /\ rq[t].pc = "dump"
    /\ LET tmp == TmpPath(DATA_FILE)
           k == rq[t].n
           last == k + 1 >= Len(inventory)
           elems == IF k < Len(inventory)
                    THEN Append(fs[tmp].elems, DumpItem(inventory[k + 1]))
                    ELSE fs[tmp].elems
       IN  /\ fs' = [fs EXCEPT ![tmp] = IF last THEN JsonArray(elems) ELSE OpenArray(elems)]
           /\ Ctx(t, [rq[t] EXCEPT !.n = IF last THEN 0 ELSE k + 1,
                                    !.pc = IF last THEN "replace" ELSE "dump"])
    /\ UNCHANGED <<proc, inventory, lock, m, menu, hist, contactVars>>

\* os.replace(tmp, path), and the end of the `with _lock` block
SaveReplace(t) ==
    /\ proc = "serving"
    /\ rq[t].pc = "replace"
    /\ fs' = Replace(fs, TmpPath(DATA_FILE), DATA_FILE)
    /\ lock' = 0
    /\ Ctx(t, [rq[t] EXCEPT !.pc = "qty_read"])
    /\ UNCHANGED <<proc, inventory, m, menu, hist, contactVars>>

\* save_inventory takes the lock and _ensure_dir or open(tmp, "w") raises
\* OSError: the `with` block releases the lock and the exception leaves
\* order_product.
SaveFail(t) ==
    /\ proc = "serving"
    /\ rq[t].pc = "save"
    /\ lock = 0
    /\ lock' = 0
    /\ hist' = [hist EXCEPT !.persistFailed = TRUE]
    /\ \E propagate \in BOOLEAN : Ctx(t, [Raise(rq[t], propagate) EXCEPT !.n = 0])
    /\ UNCHANGED <<proc, fs, inventory, m, menu, contactVars>>

\* INVENTORY_QTY.labels(...).set(product["quantity"]): the read ...
QtyRead(t) ==
    /\ proc = "serving"
    /\ rq[t].pc = "qty_read"
    /\ Ctx(t, [rq[t] EXCEPT !.q = inventory[rq[t].product].quantity, !.pc = "qty_set"])
    /\ UNCHANGED <<proc, fs, inventory, lock, m, menu, hist, contactVars>>

\* ... and the set.
QtySet(t) ==
    /\ proc = "serving"
    /\ rq[t].pc = "qty_set"
    /\ m' = [m EXCEPT !.quantity = Put(@, rq[t].req.path[2], rq[t].q)]
    /\ Ctx(t, [rq[t] EXCEPT !.q = 0, !.pc = "agg_read"])
    /\ UNCHANGED <<proc, fs, inventory, lock, menu, hist, contactVars>>

\* _update_aggregate_gauges: the four values are computed ...
AggRead(t) ==
    /\ proc = "serving"
    /\ rq[t].pc = "agg_read"
    /\ Ctx(t, [rq[t] EXCEPT !.agg = Aggregates(inventory), !.pc = "agg_set"])
    /\ UNCHANGED <<proc, fs, inventory, lock, m, menu, hist, contactVars>>

\* ... and then set.
AggSet(t) ==
    /\ proc = "serving"
    /\ rq[t].pc = "agg_set"
    /\ m' = [m EXCEPT !.agg = rq[t].agg]
    /\ Ctx(t, [rq[t] EXCEPT !.agg = NoAggregates, !.pc = "return"])
    /\ UNCHANGED <<proc, fs, inventory, lock, menu, hist, contactVars>>

\* ORDERS_TOTAL success, STOCK_DECREMENTS_TOTAL, return jsonify(product)
OrderReturn(t) ==
    /\ proc = "serving"
    /\ rq[t].pc = "return"
    /\ LET product_id == rq[t].req.path[2]
       IN  m' = [m EXCEPT !.orders = Inc(@, <<product_id, "success">>),
                          !.decrements = Inc(@, product_id)]
    /\ Ctx(t, Respond(rq[t], 200, <<inventory[rq[t].product]>>))
    /\ UNCHANGED <<proc, fs, inventory, lock, menu, hist, contactVars>>

\* ----------------------------------------------------------------- startup
\* Every element carries both fields.
WellShaped(data) == \A i \in 1..Len(data) : data[i].keys = AllKeys

\* inventory = load_inventory()
LoadInventory ==
    /\ proc = "boot"
    /\ LET c == fs[DATA_FILE]
       IN  IF IsList(c)
           THEN /\ inventory' = LoadList(c.elems)
                /\ proc' = "loaded"
                /\ UNCHANGED <<fs, hist>>
           ELSE \E written \in BOOLEAN :
                IF written
                THEN /\ fs' = AtomicWrite(fs, DATA_FILE, DEFAULT_INVENTORY)
                     /\ inventory' = DEFAULT_INVENTORY
                     /\ proc' = "loaded"
                     /\ hist' = hist
                ELSE \* _atomic_write raised: the import fails
                     /\ proc' = "bootfail"
                     /\ hist' = [hist EXCEPT !.persistFailed = TRUE]
                     /\ UNCHANGED <<fs, inventory>>
    /\ UNCHANGED <<lock, m, rq, menu, contactVars>>

\* refresh_gauges() at import: item["id"] and item["quantity"] raise KeyError
\* on an element that lacks them, and the import fails.
RefreshStart ==
    /\ proc = "loaded"
    /\ IF WellShaped(inventory)
       THEN /\ m' = RefreshGauges(m, inventory)
            /\ proc' = "serving"
            /\ hist' = [hist EXCEPT !.inv0 = inventory]
       ELSE /\ proc' = "bootfail"
            /\ UNCHANGED <<m, hist>>
    /\ UNCHANGED <<fs, inventory, lock, rq, menu, contactVars>>

\* ------------------------------------------------------- the serving process
NoHistory == [inv0 |-> <<>>, persistFailed |-> FALSE, bootFile |-> Absent]

NoFiles == [p \in Paths |-> Absent]

\* The contact-support service is not running.
InitContactIdle ==
    /\ cm = EmptyContactRegistry
    /\ crq = <<>>

\* The state once the module is imported, DATA_FILE holding a valid list.
Init ==
    /\ proc = "serving"
    /\ inventory \in StartInventories
    /\ fs = [NoFiles EXCEPT ![DATA_FILE] = JsonArray(DumpList(inventory))]
    /\ lock = 0
    /\ m = RefreshGauges(EmptyRegistry, inventory)
    /\ rq = [t \in 1..NumThreads |-> IdleThread]
    /\ menu = Orders
    /\ hist = [NoHistory EXCEPT !.inv0 = inventory, !.bootFile = fs[DATA_FILE]]
    /\ InitContactIdle

\* Scheduling.  Some steps commute with every step of every other thread:
\* the second stock test (a quantity that failed the first never grows), the
\* first write after taking the lock and the rename before releasing it
\* (the temporary file belongs to the lock holder), and the After and
\* Teardown hooks (they touch the request's own context and add to or
\* subtract from metric series).  A thread about to take such a step takes it
\* before any other thread moves; every other interleaving is kept.
Urgent(ctx) ==
    \/ ctx.pc \in {"check2", "replace", "after", "teardown"}
    \/ ctx.pc = "dump" /\ ctx.n = 0

MayRun(t) == Urgent(rq[t]) \/ \A u \in Threads : ~Urgent(rq[u])

OrderStep(t) ==
    \/ Before(t) \/ After(t) \/ Teardown(t)
    \/ OrderCheck(t) \/ OrderReject(t) \/ OrderDecRead(t) \/ OrderDecWrite(t)
    \/ SaveOpen(t) \/ SaveDump(t) \/ SaveReplace(t) \/ SaveFail(t)
    \/ QtyRead(t) \/ QtySet(t) \/ AggRead(t) \/ AggSet(t) \/ OrderReturn(t)

Next == \E t \in Threads : MayRun(t) /\ OrderStep(t)

\* Concurrent orders against a loaded inventory.
Spec == Init /\ [][Next]_vars

\* ---------------------------------------------- every endpoint of the service
InitHttp ==
    /\ proc = "serving"
    /\ inventory \in StartInventories
    /\ fs = [NoFiles EXCEPT ![DATA_FILE] = JsonArray(DumpList(inventory))]
    /\ lock = 0
    /\ m = RefreshGauges(EmptyRegistry, inventory)
    /\ rq = [t \in 1..NumThreads |-> IdleThread]
    /\ menu = Requests
    /\ hist = [NoHistory EXCEPT !.inv0 = inventory, !.bootFile = fs[DATA_FILE]]
    /\ InitContactIdle

HttpStep(t) ==
    \/ Metrics(t) \/ Healthz(t) \/ GetInventory(t) \/ GetProductInventory(t)
    \/ NoRoute(t)

NextHttp == \E t \in Threads : MayRun(t) /\ (OrderStep(t) \/ HttpStep(t))

SpecHttp == InitHttp /\ [][NextHttp]_vars

\* ------------------------------------------------- from the file to serving
MaxBootLen == 2          \* longest list in a starting file

BootElems ==
    {DumpItem([keys |-> k, id |-> i, quantity |-> q]) :
        k \in SUBSET AllKeys, i \in {1, 2}, q \in 0..MaxQty}

RECURSIVE SeqsUpTo(_, _)
SeqsUpTo(S, n) ==
    IF n = 0 THEN {<<>>}
    ELSE LET shorter == SeqsUpTo(S, n - 1)
         IN  shorter \cup {Append(q, x) : q \in shorter, x \in S}

BootFiles ==
    {Absent, Garbage, JsonObject}
        \cup {JsonArray(e) : e \in SeqsUpTo(BootElems, MaxBootLen)}
        \cup {OpenArray(e) : e \in SeqsUpTo(BootElems, 1)}

InitBoot ==
    /\ proc = "boot"
    /\ inventory = <<>>
    /\ \E c \in BootFiles :
        /\ fs = [NoFiles EXCEPT ![DATA_FILE] = c]
        /\ hist = [NoHistory EXCEPT !.bootFile = c]
    /\ lock = 0
    /\ m = EmptyRegistry
    /\ rq = [t \in {1} |-> IdleThread]
    /\ menu = Orders
    /\ InitContactIdle

NextBoot ==
    LoadInventory \/ RefreshStart \/ \E t \in Threads : MayRun(t) /\ OrderStep(t)

SpecBoot == InitBoot /\ [][NextBoot]_vars

\* ====================================================== contact-support-team
CReq(method, path, body) == [method |-> method, path |-> path, body |-> body]

\* body: "" (none), "dict" (a JSON object), "other" (anything else)
ContactRequests ==
    {CReq("GET", "/metrics", ""), CReq("GET", "/healthz", ""),
     CReq("GET", "/api/contact-message", ""), CReq("GET", "/nope", ""),
     CReq("POST", "/api/contact-submit", "dict"),
     CReq("POST", "/api/contact-submit", "other")}

\* _label_route(): request.path
LabelRoute(r) == r.path

\* A request with a body carries a Content-Length header.
HasContentLength(r) == r.body # ""

\* elapsed * 1000.0, as _record_metrics may measure it
ElapsedMs == {50, 51, 200, 201}

FastLabelsBucketed(ms) ==
    IF ms <= 50 THEN {"50"} ELSE IF ms <= 200 THEN {"200"} ELSE {}

\* The le_ms labels a request of that duration is counted under.
FastLabels(ms) ==
    (IF ms <= 50 THEN {"50"} ELSE {}) \cup (IF ms <= 200 THEN {"200"} ELSE {})

RECURSIVE IncAll(_, _)
IncAll(series, labelSet) ==
    IF labelSet = {} THEN series
    ELSE LET l == CHOOSE x \in labelSet : TRUE
         IN  IncAll(Inc(series, l), labelSet \ {l})

CThreads == DOMAIN crq

IdleContact ==
    [pc |-> "idle", req |-> CReq("", "", ""), route |-> "", status |-> 0,
     exc |-> FALSE, incs |-> 0, decs |-> 0, ms |-> 0]

CCtx(t, r) == crq' = [crq EXCEPT ![t] = r]

\* @app.before_request _start_timer
StartTimer(t) ==
    /\ crq[t].pc = "idle"
    /\ NextToArrive(crq, t)
    /\ \E r \in ContactRequests :
        LET route == LabelRoute(r)
        IN  /\ cm' = [cm EXCEPT !.in_flight = Inc(@, route),
                                !.request_size = IF HasContentLength(r)
                                                 THEN Inc(@, <<r.method, route>>) ELSE @,
                                !.rss = TRUE]
            /\ CCtx(t, [crq[t] EXCEPT !.pc = "handler", !.req = r, !.route = route,
                                      !.incs = @ + 1])
    /\ UNCHANGED invVars

\* IN_FLIGHT.labels(service, route).dec()
GaugeDec(series, route) == Put(series, route, Value(series, route) - 1)

\* @app.after_request _record_metrics
RecordMetrics(t) ==
    /\ crq[t].pc = "after"
    /\ \E ms \in ElapsedMs :
        LET ctx == crq[t]
            route == ctx.route
            labels == <<ctx.req.method, route, ctx.status>>
        IN  /\ cm' = [cm EXCEPT
                        !.requests = Inc(@, labels),
                        !.latency = Inc(@, <<ctx.req.method, route>>),
                        !.errors = IF ctx.status >= 400 THEN Inc(@, labels) ELSE @,
                        !.response_size = Inc(@, labels),
                        !.fast = IncAll(@, {<<route, le>> : le \in FastLabels(ms)}),
                        !.in_flight = GaugeDec(@, route)]
            /\ CCtx(t, [ctx EXCEPT !.pc = "done", !.decs = @ + 1, !.ms = ms])
    /\ UNCHANGED invVars

CRespond(ctx, status) == [ctx EXCEPT !.pc = "after", !.status = status]

\* The handler raised: Flask runs the after_request functions on a 500
\* response, or re-raises (PROPAGATE_EXCEPTIONS, testing, debug) and the
\* request ends; the service registers no teardown function.
CRaise(ctx, propagate) ==
    [ctx EXCEPT !.pc = IF propagate THEN "done" ELSE "after",
                !.exc = TRUE, !.status = 500]

CHandling(t, method, path) ==
    /\ crq[t].pc = "handler"
    /\ crq[t].req.method = method
    /\ crq[t].req.path = path

\* metrics()
CMetrics(t) ==
    /\ CHandling(t, "GET", "/metrics")
    /\ CCtx(t, CRespond(crq[t], 200))
    /\ UNCHANGED <<cm, invVars>>

\* healthz()
CHealthz(t) ==
    /\ CHandling(t, "GET", "/healthz")
    /\ CCtx(t, CRespond(crq[t], 200))
    /\ UNCHANGED <<cm, invVars>>

\* get_contact_message()
GetContactMessage(t) ==
    /\ CHandling(t, "GET", "/api/contact-message")
    /\ cm' = [cm EXCEPT !.messages = @ + 1]
    /\ CCtx(t, CRespond(crq[t], 200))
    /\ UNCHANGED invVars

\* submit_contact_form()
SubmitContactForm(t) ==
    /\ CHandling(t, "POST", "/api/contact-submit")
    /\ IF crq[t].req.body # "dict"
       THEN /\ cm' = [cm EXCEPT !.submissions = Inc(@, "invalid_json"),
                                !.processing = @ + 1]
            /\ CCtx(t, CRespond(crq[t], 400))
       ELSE /\ cm' = [cm EXCEPT !.submissions = Inc(@, "success"),
                                !.fields = @ + 1, !.processing = @ + 1]
            /\ \/ CCtx(t, CRespond(crq[t], 200))
               \/ \* print(...) raised (stdout closed or unable to encode)
                  \E propagate \in BOOLEAN : CCtx(t, CRaise(crq[t], propagate))
    /\ UNCHANGED invVars

\* No route matches the path: Flask answers 404 without calling a handler.
CNoRoute(t) ==
    /\ CHandling(t, "GET", "/nope")
    /\ CCtx(t, CRespond(crq[t], 404))
    /\ UNCHANGED <<cm, invVars>>

InitContact ==
    /\ proc = "boot"
    /\ fs = NoFiles
    /\ inventory = <<>>
    /\ lock = 0
    /\ m = EmptyRegistry
    /\ rq = <<>>
    /\ menu = {}
    /\ hist = NoHistory
    /\ cm = EmptyContactRegistry
    /\ crq = [t \in 1..NumContact |-> IdleContact]

ContactStep(t) ==
    \/ StartTimer(t) \/ RecordMetrics(t)
    \/ CMetrics(t) \/ CHealthz(t) \/ GetContactMessage(t) \/ SubmitContactForm(t)
    \/ CNoRoute(t)

NextContact == \E t \in CThreads : ContactStep(t)

SpecContact == InitContact /\ [][NextContact]_vars

\* ================================================================ properties
Done(t) == rq[t].pc = "done"
AllDone == \A t \in Threads : Done(t)
Quiet == \A t \in Threads : ~Running(t)
IsOrder(r) == UrlRule(r) = "/api/order/<int:product_id>"
OrderOf(i) == Req("POST", <<"/api/order", i>>)

\* The places of the list that carry the id.
Holding(inv, product_id) == {i \in 1..Len(inv) : inv[i].id = product_id}

\* The inventory the file at the canonical path loads as.
Stored == LoadList(fs[DATA_FILE].elems)

\* C1: N concurrent orders of an item whose quantity is 1 (no persist
\* failing): exactly one returns 200, the others 400, the quantity ends at 0.
C1_OneSuccessOthersOutOfStock ==
    (/\ AllDone
     /\ \A t \in Threads : rq[t].req = OrderOf(1)
     /\ hist.inv0[1].quantity = 1
     /\ ~hist.persistFailed)
    => /\ Cardinality({t \in Threads : rq[t].status = 200}) = 1
       /\ \A t \in Threads : rq[t].status \in {200, 400}
       /\ inventory[1].quantity = 0

\* C2: no quantity, in memory or in the persisted file, is ever negative.
C2_QuantityNeverNegative ==
    /\ \A i \in 1..Len(inventory) : inventory[i].quantity >= 0
    /\ IsList(fs[DATA_FILE]) => \A i \in 1..Len(Stored) : Stored[i].quantity >= 0

\* C3: every instrumented request increments the in-flight gauge once and
\* decrements it once, by After or else by Teardown; the gauge counts the
\* requests that are counted and not yet released, is never negative and is 0
\* when no request is running.
C3_InFlightBalanced ==
    /\ m.in_flight >= 0
    /\ m.in_flight = Cardinality({t \in Threads : rq[t].inflight_inc})
    /\ \A t \in Threads :
        /\ rq[t].decs <= rq[t].incs
        /\ (Running(t) /\ ~IsMetricsPath(rq[t].req)) => rq[t].incs = 1
        /\ (Done(t) /\ ~IsMetricsPath(rq[t].req))
            => rq[t].incs = 1 /\ rq[t].decs = 1 /\ ~rq[t].inflight_inc
    /\ Quiet => m.in_flight = 0

\* A request whose handler raised and whose After did not run has been
\* released by Teardown, next to one that returned normally.
C3_Witness ==
    \E t, u \in Threads :
        /\ Done(t) /\ rq[t].exc /\ rq[t].decs = 1
        /\ Value(m.requests, HttpLabels(rq[t])) = 0
        /\ Done(u) /\ rq[u].status = 400
        /\ m.in_flight = 0

\* C4: in the contact-support service every request that entered the before
\* hook has, once it is over, incremented its route's in-flight gauge once
\* and decremented it once, and every route's gauge is 0 when no request runs.
C4_ContactInFlightBalanced ==
    /\ \A t \in CThreads :
        crq[t].pc = "done" => crq[t].incs = 1 /\ crq[t].decs = 1
    /\ (\A t \in CThreads : crq[t].pc \in {"idle", "done"})
        => \A route \in DOMAIN cm.in_flight : cm.in_flight[route] = 0

\* A request that ran alone, at the moment its handler has returned.
Returned(t) == rq[t].pc = "after" /\ rq[t].alone /\ IsOrder(rq[t].req)

\* C5: an order that runs alone on an item with quantity q > 0 and is not
\* hit by a persist failure returns the item with q - 1, leaves the list as
\* it was but for that quantity, and the file then loads as the list.
C5_OrderDecrementsAndPersists ==
    \A t \in Threads :
        LET st == rq[t].start.inv
        IN  \A i \in Holding(st, rq[t].req.path[2]) :
            (Returned(t) /\ st[i].quantity > 0 /\ ~rq[t].exc)
            => /\ rq[t].status = 200
               /\ rq[t].body = <<[st[i] EXCEPT !.quantity = @ - 1]>>
               /\ inventory = [st EXCEPT ![i].quantity = @ - 1]
               /\ IsList(fs[DATA_FILE])
               /\ Stored = inventory

\* An order has taken item 2 from 11 to 10 and has returned.
C5_Witness ==
    \E t \in Threads :
        /\ Returned(t) /\ rq[t].status = 200
        /\ rq[t].req = OrderOf(2)
        /\ rq[t].start.inv[2].quantity = 11
        /\ inventory[2].quantity = 10

\* C6: an order of an existing item whose quantity is 0 returns 400 and
\* changes neither the list nor the file; no order that returns 400 has
\* stored a quantity or opened the file.
C6_OutOfStockNoEffect ==
    \A t \in Threads :
        LET st == rq[t].start.inv
        IN  /\ \A i \in Holding(st, rq[t].req.path[2]) :
                (Returned(t) /\ st[i].quantity = 0)
                => /\ rq[t].status = 400
                   /\ inventory = st
                   /\ fs[DATA_FILE] = rq[t].start.file
            /\ (rq[t].pc = "after" /\ rq[t].status = 400)
                => ~rq[t].stored /\ ~rq[t].wrote

\* An order of item 1 has been refused after an earlier order emptied it.
C6_Witness ==
    \E t \in Threads :
        /\ Returned(t) /\ rq[t].status = 400
        /\ rq[t].req = OrderOf(1)
        /\ hist.inv0[1].quantity = 1
        /\ rq[t].start.inv[1].quantity = 0

\* C7: an order of an id no item carries returns 404, stores no quantity
\* and opens no file; alone, it leaves the list and the file as they were.
C7_UnknownIdNoEffect ==
    \A t \in Threads :
        (rq[t].pc = "after" /\ IsOrder(rq[t].req)
            /\ Holding(inventory, rq[t].req.path[2]) = {})
        => /\ rq[t].status = 404
           /\ ~rq[t].stored /\ ~rq[t].wrote
           /\ rq[t].alone => /\ inventory = rq[t].start.inv
                             /\ fs[DATA_FILE] = rq[t].start.file

\* An order of id 99 has returned, alone and next to a running order.
C7_Witness ==
    /\ \E t \in Threads :
        rq[t].pc = "after" /\ rq[t].req = OrderOf(99) /\ rq[t].status = 404
    /\ \E u \in Threads : Done(u) /\ rq[u].status = 200

\* C8: once load_inventory has returned (its own write not failing), the
\* list is the file's content if the file held a list whose every element
\* carries both fields; otherwise it is the default inventory, and the file
\* holds the default inventory.
C8_ShapeCheckedLoad ==
    LET b == hist.bootFile
    IN  proc = "loaded"
        => IF IsList(b) /\ WellShaped(b.elems)
           THEN inventory = LoadList(b.elems) /\ fs[DATA_FILE] = b
           ELSE /\ inventory = DEFAULT_INVENTORY
                /\ IsList(fs[DATA_FILE])
                /\ Stored = DEFAULT_INVENTORY

\* A complete file: a closed list, one well-formed element per item.
Complete(c) == IsList(c) /\ Len(c.elems) = Len(inventory) /\ WellShaped(c.elems)

Writers == {t \in Threads : rq[t].pc \in {"dump", "replace"}}

\* C9: whichever step the process is killed at, the file at the canonical
\* path is complete: it changes only by being replaced with the completely
\* written temporary file; and at most one thread, the holder of the lock,
\* is writing the temporary file.
C9_CrashConsistent ==
    /\ [](/\ Complete(fs[DATA_FILE])
          /\ Cardinality(Writers) <= 1
          /\ \A t \in Writers : lock = t)
    /\ [][fs'[DATA_FILE] # fs[DATA_FILE]
            => /\ Complete(fs[TmpPath(DATA_FILE)])
               /\ fs'[DATA_FILE] = fs[TmpPath(DATA_FILE)]]_vars

\* A thread is half-way through the temporary file while another waits for
\* the lock; the canonical file still holds the previous inventory.
C9_Witness ==
    \E t, u \in Threads :
        /\ rq[t].pc = "dump" /\ rq[t].n = 1
        /\ rq[u].pc = "save"
        /\ ~fs[TmpPath(DATA_FILE)].closed
        /\ Stored = hist.inv0
        /\ inventory # hist.inv0

\* C10: once concurrent orders that all succeeded have completed, the four
\* aggregate gauges and each product's quantity gauge hold the values of the
\* final inventory.
C10_GaugesMatchStore ==
    (AllDone /\ \A t \in Threads : rq[t].status = 200)
    => /\ m.agg = Aggregates(inventory)
       /\ \A i \in 1..Len(inventory) :
            Value(m.quantity, inventory[i].id) = inventory[i].quantity

\* C11: an order whose persist step fails does not return success and leaves
\* the in-memory quantity what it was before the order, equal to the file's.
C11_FailedPersistRolledBack ==
    \A t \in Threads :
        (/\ rq[t].pc \in {"after", "teardown"}
         /\ rq[t].exc
         /\ rq[t].alone
         /\ rq[t].start.file = JsonArray(DumpList(rq[t].start.inv)))
        => /\ rq[t].status >= 500
           /\ inventory = rq[t].start.inv
           /\ Stored = inventory

\* The requests that have completed after their handler raised.
Faulted(route) ==
    {t \in Threads : Done(t) /\ rq[t].exc /\ RouteLabel(rq[t].req) = route}

\* C12: the exceptions counter of a route counts the completed requests of
\* that route whose handler raised, each once; such a request ends with
\* status 500 and the in-flight gauge released once; a request that completes
\* without a fault, 4xx included, leaves the counter alone.
C12_ExceptionsCountFaults ==
    /\ \A r \in Requests :
        Value(m.exceptions, RouteLabel(r)) = Cardinality(Faulted(RouteLabel(r)))
    /\ DOMAIN m.exceptions \subseteq
        {RouteLabel(rq[t].req) : t \in {u \in Threads : Done(u) /\ rq[u].exc}}
    /\ \A t \in Threads :
        (Done(t) /\ rq[t].exc)
        => /\ rq[t].status = 500
           /\ rq[t].incs = 1 /\ rq[t].decs = 1 /\ ~rq[t].inflight_inc

\* One order has completed after a fault and is counted once, another has
\* completed with 400 or 404.
C12_Witness ==
    \E t, u \in Threads :
        /\ Done(t) /\ rq[t].exc
        /\ Value(m.exceptions, RouteLabel(rq[t].req)) = 1
        /\ Done(u) /\ ~rq[u].exc /\ rq[u].status \in {400, 404}

\* C13: a request for /metrics changes none of the request-instrumentation
\* series: while /metrics is the only path that has been requested, the
\* in-flight, requests-total, latency, error, size and fast-request series of
\* the contact service are as they were at start.
C13_MetricsNotInstrumented ==
    (\A t \in CThreads : crq[t].pc # "idle" => crq[t].req.path = "/metrics")
    => /\ cm.in_flight = NoSeries
       /\ cm.requests = NoSeries
       /\ cm.latency = NoSeries
       /\ cm.errors = NoSeries
       /\ cm.request_size = NoSeries
       /\ cm.response_size = NoSeries
       /\ cm.fast = NoSeries

\* C14: the route label of every series of the request instrumentation is one
\* of the registered route templates, whatever the raw path of the request.
C14_RouteLabelIsTemplate ==
    /\ \A l \in DOMAIN m.requests \cup DOMAIN m.durations \cup DOMAIN m.sizes :
        l[2] \in {<<rule>> : rule \in RegisteredRoutes}
    /\ \A l \in DOMAIN m.exceptions :
        l \in {<<rule>> : rule \in RegisteredRoutes}

\* The completed instrumented requests that carry the labels.
CompletedAs(labels) ==
    {t \in Threads : /\ Done(t)
                     /\ ~IsMetricsPath(rq[t].req)
                     /\ HttpLabels(rq[t]) = labels}

\* C15: once no request is running, requests-total and the duration histogram
\* hold, under each {method, route, status} label set, one count for every
\* completed instrumented request with these labels, faulted ones included.
C15_EveryRequestCountedOnce ==
    Quiet =>
        \A t \in Threads :
            (Done(t) /\ ~IsMetricsPath(rq[t].req))
            => LET labels == HttpLabels(rq[t])
               IN  /\ Value(m.requests, labels) = Cardinality(CompletedAs(labels))
                   /\ Value(m.durations, labels) = Cardinality(CompletedAs(labels))

\* C16: load_inventory returns an inventory and raises nothing in every case,
\* also when writing the default inventory fails: the start of the process
\* is never stopped by a failed persist.
C16_LoadNeverRaises == ~(proc = "bootfail" /\ hist.persistFailed)

\* The sum of a counter over all its label sets.
RECURSIVE SumSeries(_)
SumSeries(series) ==
    IF DOMAIN series = {} THEN 0
    ELSE LET l == CHOOSE x \in DOMAIN series : TRUE
         IN  series[l] + SumSeries([k \in DOMAIN series \ {l} |-> series[k]])

\* C17: the order-attempts counter counts orders only: once no request is
\* running (no persist failing), its sum over all products and results is the
\* number of completed POST /api/order/{id} calls, and each series belongs to
\* the id of a completed order.
C17_OrdersCounterCountsOrders ==
    (Quiet /\ ~hist.persistFailed)
    => /\ SumSeries(m.orders)
            = Cardinality({t \in Threads : Done(t) /\ IsOrder(rq[t].req)})
       /\ \A l \in DOMAIN m.orders :
            \E t \in Threads : Done(t) /\ rq[t].req = OrderOf(l[1])

\* The requests of the contact service completed on a route, and those of
\* them that _record_metrics timed.
CompletedOn(route) ==
    {t \in CThreads : crq[t].pc = "done" /\ crq[t].route = route}
TimedOn(route) == {t \in CompletedOn(route) : crq[t].decs = 1}

Succeeded(product_id) ==
    {t \in Threads : rq[t].req = OrderOf(product_id) /\ rq[t].status = 200}

\* C19: no decrement is lost or duplicated: with no persist failing, once
\* every request has completed, each item's quantity has gone down by the
\* number of its orders answered 200, which is also its stock-decrement
\* counter and its order counter for result success.
C19_NoDecrementLostOrDuplicated ==
    (AllDone /\ ~hist.persistFailed)
    => \A i \in 1..Len(hist.inv0) :
        LET product_id == hist.inv0[i].id
            n == Cardinality(Succeeded(product_id))
        IN  /\ hist.inv0[i].quantity - inventory[i].quantity = n
            /\ Value(m.decrements, product_id) = n
            /\ Value(m.orders, <<product_id, "success">>) = n

\* C20: with no persist failing, once no request is running the file at the
\* canonical path holds the in-memory inventory.
C20_FileEqualsMemoryWhenQuiet ==
    (Quiet /\ ~hist.persistFailed)
    => /\ IsList(fs[DATA_FILE])
       /\ Stored = inventory

\* Two orders of item 2 that overlapped (one decrement was lost) have both
\* been answered 200 and nothing is running; the file holds the inventory.
C20_Witness ==
    /\ Quiet /\ ~hist.persistFailed
    /\ \E t, u \in Threads :
        /\ t # u
        /\ Done(t) /\ rq[t].req = OrderOf(2) /\ rq[t].status = 200
        /\ Done(u) /\ rq[u].req = OrderOf(2) /\ rq[u].status = 200
    /\ inventory[2].quantity = hist.inv0[2].quantity - 1
    /\ Stored = inventory

====
